---- MODULE Spec2Model ----
(***************************************************************************)
(* CanvasStudio transform engine: the canvas store's transform, the        *)
(* ImageLayer component (contain-init effect, bounds, clamp effects,       *)
(* gesture handlers), the CanvasStage size tracking and renderScene.       *)
(*                                                                         *)
(* Numbers are exact rationals <<n, d>> in lowest terms with d > 0, so     *)
(* JavaScript number arithmetic is modelled without rounding.              *)
(***************************************************************************)
EXTENDS Integers, Sequences, FiniteSets, TLC

VARIABLES transform, image, previewSize, canvasSize, mounted, lastImageId,
          snap, prevDeps, dirty, pending, ctx, last, nGestures

vars == <<transform, image, previewSize, canvasSize, mounted, lastImageId,
          snap, prevDeps, dirty, pending, ctx, last, nGestures>>

(***************************************************************************)
(* Bounds of the model                                                     *)
(***************************************************************************)
\* largest denominator a stored scale may have; a zoom event whose result
\* would need a larger one is not delivered
MaxDen == 10

\* number of gesture events (drag, wheel, pinch) delivered in one run
MaxGestures == 4

(***************************************************************************)
(* Rational arithmetic                                                     *)
(***************************************************************************)
Abs(a) == IF a < 0 THEN -a ELSE a

RECURSIVE Gcd(_, _)
Gcd(a, b) == IF b = 0 THEN a ELSE Gcd(b, a % b)

Norm(n, d) ==
    LET s == IF d < 0 THEN -1 ELSE 1
        g == Gcd(Abs(n), Abs(d))
    IN  <<(s * n) \div g, (s * d) \div g>>

R(i) == <<i, 1>>
RAdd(a, b) == Norm(a[1] * b[2] + b[1] * a[2], a[2] * b[2])
RSub(a, b) == Norm(a[1] * b[2] - b[1] * a[2], a[2] * b[2])
RMul(a, b) == Norm(a[1] * b[1], a[2] * b[2])
RDiv(a, b) == Norm(a[1] * b[2], a[2] * b[1])
RNeg(a) == <<-a[1], a[2]>>
RLt(a, b) == a[1] * b[2] < b[1] * a[2]
RLe(a, b) == a[1] * b[2] <= b[1] * a[2]
RMax(a, b) == IF RLt(a, b) THEN b ELSE a
RMin(a, b) == IF RLt(b, a) THEN b ELSE a

(***************************************************************************)
(* lib/canvas/math                                                         *)
(***************************************************************************)
MAX_SCALE == 4

\* Math.min(Math.max(value, min), max)
clamp(value, min, max) == RMin(RMax(value, min), max)

computeContainScale(img, canvasWidth, canvasHeight) ==
    RMin(Norm(canvasWidth, img.width), Norm(canvasHeight, img.height))

(***************************************************************************)
(* state/canvasStore                                                       *)
(***************************************************************************)
NoImage == [id |-> "none", width |-> 0, height |-> 0]
NoSize == [width |-> 0, height |-> 0]

\* merge of the given fields into the current transform
updateTransform(t, partial) ==
    [f \in {"x", "y", "scale"} |->
        IF f \in DOMAIN partial THEN partial[f] ELSE t[f]]

nudgePosition(t, d) ==
    [t EXCEPT !.x = RAdd(t.x, d.x), !.y = RAdd(t.y, d.y)]

\* adjustScale without the rejection of non-positive factors
adjustScaleAnyFactor(t, factor) ==
    [t EXCEPT !.scale = RMul(t.scale, factor)]

adjustScale(t, factor) ==
    IF factor[1] <= 0 THEN t
    ELSE [t EXCEPT !.scale = RMul(t.scale, factor)]

(***************************************************************************)
(* components/image/ImageLayer: values computed during a render            *)
(***************************************************************************)
\* what one render of ImageLayer sees: its props and the store's transform
Snapshot(img, size, t) ==
    [image |-> img, canvasWidth |-> size.width, canvasHeight |-> size.height,
     transform |-> t]

NoSnapshot == Snapshot(NoImage, NoSize, [x |-> R(0), y |-> R(0), scale |-> R(1)])

imageDisplayWidth(s) == RMul(R(s.image.width), s.transform.scale)
imageDisplayHeight(s) == RMul(R(s.image.height), s.transform.scale)

maxX(s) == RMax(R(0), RDiv(RSub(imageDisplayWidth(s), R(s.canvasWidth)), R(2)))
\* the vertical bound without its floor at 0
maxYNoFloor(s) == RDiv(RSub(imageDisplayHeight(s), R(s.canvasHeight)), R(2))
maxY(s) == RMax(R(0), RDiv(RSub(imageDisplayHeight(s), R(s.canvasHeight)), R(2)))
minX(s) == RNeg(maxX(s))
minY(s) == RNeg(maxY(s))

clampedX(s) == clamp(s.transform.x, minX(s), maxX(s))
clampedY(s) == clamp(s.transform.y, minY(s), maxY(s))

\* the rectangle the <img> element is laid out in
imgStyle(s) ==
    [width |-> imageDisplayWidth(s),
     height |-> imageDisplayHeight(s),
     left |-> RSub(RAdd(RDiv(R(s.canvasWidth), R(2)), clampedX(s)),
                   RDiv(imageDisplayWidth(s), R(2))),
     top |-> RSub(RAdd(RDiv(R(s.canvasHeight), R(2)), clampedY(s)),
                  RDiv(imageDisplayHeight(s), R(2)))]

\* dependency arrays of the three effects, as of render s
Deps(s) ==
    [init |-> <<s.image.id, s.canvasWidth, s.canvasHeight>>,
     position |-> <<clampedX(s), clampedY(s), s.transform.x, s.transform.y>>,
     scale |-> s.transform.scale]

\* an effect runs after the first render and whenever a dependency changed
EffectRuns(prev, s, e) == prev = <<>> \/ prev[1][e] # Deps(s)[e]

(***************************************************************************)
(* ImageLayer: the three effects.  Each reads the render's values s and    *)
(* writes the store's current transform t through updateTransform.         *)
(***************************************************************************)
ContainInitFires(s, lastId) ==
    /\ lastId # s.image.id
    /\ s.canvasWidth > 0 /\ s.canvasHeight > 0

ContainInitEffect(t, s, lastId) ==
    IF ContainInitFires(s, lastId)
    THEN updateTransform(t,
            [scale |-> computeContainScale(s.image, s.canvasWidth, s.canvasHeight),
             x |-> R(0), y |-> R(0)])
    ELSE t

\* the position clamp looking at y only
PositionClampFiresYOnly(s) ==
    clampedY(s) # s.transform.y

PositionClampFires(s) ==
    clampedX(s) # s.transform.x \/ clampedY(s) # s.transform.y

\* the position clamp writing back x only
PositionClampEffectXOnly(t, s) ==
    IF PositionClampFires(s)
    THEN updateTransform(t, [x |-> clampedX(s)])
    ELSE t

PositionClampEffect(t, s) ==
    IF PositionClampFires(s)
    THEN updateTransform(t, [x |-> clampedX(s), y |-> clampedY(s)])
    ELSE t

ScaleClampFires(s) == RLt(R(MAX_SCALE), s.transform.scale)

\* the scale clamp easing halfway toward the ceiling instead of snapping
ScaleClampEffectEasing(t, s) ==
    IF ScaleClampFires(s)
    THEN updateTransform(t, [scale |-> RDiv(RAdd(s.transform.scale,
                                                 R(MAX_SCALE)), R(2))])
    ELSE t

ScaleClampEffect(t, s) ==
    IF ScaleClampFires(s)
    THEN updateTransform(t, [scale |-> R(MAX_SCALE)])
    ELSE t

(***************************************************************************)
(* ImageLayer: gesture handlers                                            *)
(***************************************************************************)
K_DRAG == <<1, 500>>
K_WHEEL == <<1, 600>>
K_PINCH == <<1, 200>>

\* the drag zoom factor without its 0.5 floor
DragFactorNoFloor(dy) == RSub(R(1), RMul(R(dy), K_DRAG))

\* Math.max(0.5, 1 - dy * 0.002)
DragFactor(dy) == RMax(<<1, 2>>, RSub(R(1), RMul(R(dy), K_DRAG)))

\* Math.max(0.5, 1 + d / 200)
PinchFactor(d) == RMax(<<1, 2>>, RAdd(R(1), RMul(R(d), K_PINCH)))

\* Math.exp(-dy * K_WHEEL) for the wheel deltas delivered here: the double
\* nearest to e^(-416/600) is 0.49990.., to e^(416/600) 2.0003.., taken as
\* 1/2 and 2; e^(-750) is below the smallest double and evaluates to 0.
WheelFactor(dy) ==
    CASE dy = 0 -> R(1)
      [] dy = 416 -> <<1, 2>>
      [] dy = -416 -> R(2)
      [] dy = 450000 -> R(0)

\* a drag handler that falls through to the pan after zooming
onDragZoomAndPan(t, dx, dy, shiftKey) ==
    nudgePosition(IF shiftKey THEN adjustScale(t, DragFactor(dy)) ELSE t,
                  [x |-> R(dx), y |-> R(dy)])

onDrag(t, dx, dy, shiftKey) ==
    IF shiftKey
    THEN adjustScale(t, DragFactor(dy))
    ELSE nudgePosition(t, [x |-> R(dx), y |-> R(dy)])

onWheel(t, dy) == adjustScale(t, WheelFactor(dy))

onPinch(t, d) == adjustScale(t, PinchFactor(d))

(***************************************************************************)
(* lib/canvas/render: the 2D drawing surface and renderScene               *)
(***************************************************************************)
\* the drawing state that save() pushes and restore() pops
DrawState(c) ==
    [fillStyle |-> c.fillStyle, tx |-> c.tx, ty |-> c.ty,
     imageSmoothingEnabled |-> c.imageSmoothingEnabled,
     imageSmoothingQuality |-> c.imageSmoothingQuality]

NewSurface ==
    [fillStyle |-> "#000000", tx |-> R(0), ty |-> R(0),
     imageSmoothingEnabled |-> TRUE, imageSmoothingQuality |-> "low",
     stack |-> <<>>, ops |-> <<>>]

save(c) == [c EXCEPT !.stack = Append(@, DrawState(c))]

restore(c) ==
    IF c.stack = <<>> THEN c
    ELSE LET top == c.stack[Len(c.stack)]
         IN  [c EXCEPT !.fillStyle = top.fillStyle, !.tx = top.tx, !.ty = top.ty,
                       !.imageSmoothingEnabled = top.imageSmoothingEnabled,
                       !.imageSmoothingQuality = top.imageSmoothingQuality,
                       !.stack = SubSeq(@, 1, Len(@) - 1)]

\* fillRect and drawImage are logged with the rectangle they cover on the
\* surface (their arguments moved by the current translation) and, for
\* fillRect, the colour used
fillRect(c, x, y, w, h) ==
    [c EXCEPT !.ops = Append(@, <<"fillRect", c.fillStyle,
                                  RAdd(c.tx, x), RAdd(c.ty, y), w, h>>)]

translate(c, x, y) ==
    [c EXCEPT !.tx = RAdd(@, x), !.ty = RAdd(@, y),
              !.ops = Append(@, <<"translate", x, y>>)]

drawImage(c, element, x, y, w, h) ==
    [c EXCEPT !.ops = Append(@, <<"drawImage", element,
                                  RAdd(c.tx, x), RAdd(c.ty, y), w, h>>)]

Half(a) == RDiv(a, R(2))

\* renderScene without the early return for an absent image
renderSceneAlwaysDraws(c, width, height, background, t, img) ==
    LET c1 == save(c)
        c2 == [c1 EXCEPT !.fillStyle = background]
        c3 == fillRect(c2, R(0), R(0), R(width), R(height))
        c4 == restore(c3)
        drawWidth == RMul(R(img.width), t.scale)
        drawHeight == RMul(R(img.height), t.scale)
        c5 == save(c4)
        c6 == translate(c5, RAdd(Half(R(width)), t.x), RAdd(Half(R(height)), t.y))
        c7 == drawImage(c6, img.id, RNeg(Half(drawWidth)), RNeg(Half(drawHeight)),
                        drawWidth, drawHeight)
    IN  restore(c7)

\* renderScene leaving the image's save() without its restore()
renderSceneNoFinalRestore(c, width, height, background, t, img) ==
    LET c1 == save(c)
        c2 == [c1 EXCEPT !.fillStyle = background]
        c3 == fillRect(c2, R(0), R(0), R(width), R(height))
        c4 == restore(c3)
        drawWidth == RMul(R(img.width), t.scale)
        drawHeight == RMul(R(img.height), t.scale)
        c5 == save(c4)
        c6 == translate(c5, RAdd(Half(R(width)), t.x), RAdd(Half(R(height)), t.y))
        c7 == [c6 EXCEPT !.imageSmoothingEnabled = TRUE]
        c8 == [c7 EXCEPT !.imageSmoothingQuality = "high"]
        c9 == drawImage(c8, img.id, RNeg(Half(drawWidth)), RNeg(Half(drawHeight)),
                        drawWidth, drawHeight)
    IN  IF img = NoImage THEN c4 ELSE c9

\* params.image = NoImage stands for an absent image
renderScene(c, width, height, background, t, img) ==
    LET c1 == save(c)
        c2 == [c1 EXCEPT !.fillStyle = background]
        c3 == fillRect(c2, R(0), R(0), R(width), R(height))
        c4 == restore(c3)
        drawWidth == RMul(R(img.width), t.scale)
        drawHeight == RMul(R(img.height), t.scale)
        originX == RAdd(Half(R(width)), t.x)
        originY == RAdd(Half(R(height)), t.y)
        c5 == save(c4)
        c6 == translate(c5, originX, originY)
        c7 == [c6 EXCEPT !.imageSmoothingEnabled = TRUE]
        c8 == [c7 EXCEPT !.imageSmoothingQuality = "high"]
        c9 == drawImage(c8, img.id, RNeg(Half(drawWidth)), RNeg(Half(drawHeight)),
                        drawWidth, drawHeight)
    IN  IF img = NoImage THEN c4 ELSE restore(c9)

(***************************************************************************)
(* Inputs delivered by the environment                                     *)
(***************************************************************************)
Images ==
    { [id |-> "a.png", width |-> 400, height |-> 200],
      [id |-> "b.png", width |-> 1600, height |-> 600],
      [id |-> "c.png", width |-> 800, height |-> 600] }

\* rectangles reported by getBoundingClientRect
SizeReports == { <<800, 600>>, <<1600, 1200>>, <<0, 0>>, <<800, 0>> }

\* <<dx, dy, shiftKey>>
DragInputs ==
    { <<600, 0, FALSE>>, <<-600, 400, FALSE>>, <<0, -400, FALSE>>,
      <<300, -500, TRUE>>, <<0, 50, TRUE>>, <<-300, 400, TRUE>> }

WheelDeltas == { -416, 416, 450000 }

PinchDeltas == { 200, -150 }

BackgroundList == << "#ffffff", "#1e293b" >>
Backgrounds == { BackgroundList[i] : i \in DOMAIN BackgroundList }
BackgroundIndex(bg) == CHOOSE i \in DOMAIN BackgroundList : BackgroundList[i] = bg

Event(op, a, b, shift) == [op |-> op, a |-> a, b |-> b, shift |-> shift]

\* a stored scale the model can hold
ScaleOk(t) == t.scale[2] <= MaxDen

(***************************************************************************)
(* Initial state: CanvasStage is mounted, no image imported, no size yet   *)
(***************************************************************************)
Init ==
    /\ transform = [x |-> R(0), y |-> R(0), scale |-> R(1)]
    /\ image = NoImage
    /\ previewSize = NoSize
    /\ canvasSize = NoSize
    /\ mounted = FALSE
    /\ lastImageId = "null"
    /\ snap = NoSnapshot
    /\ prevDeps = <<>>
    /\ dirty = FALSE
    /\ pending = FALSE
    /\ ctx = NewSurface
    /\ last = Event("init", 0, 0, FALSE)
    /\ nGestures = 0

(***************************************************************************)
(* Events.  Handlers run on the single event loop.  A store or state       *)
(* update schedules a re-render (dirty) that runs before the next event    *)
(* is delivered, so handlers run only when none is scheduled.  useEffect   *)
(* callbacks are deferred past the commit (pending): an event may arrive   *)
(* between a commit and the flush of its effects, and that flush always    *)
(* precedes the next render.                                               *)
(***************************************************************************)
\* updateSize without the test for a positive rectangle
UpdateSizeUnguarded(w, h) ==
    /\ ~dirty
    /\ canvasSize' = [width |-> w, height |-> h]
    /\ previewSize' = [width |-> w, height |-> h]
    /\ dirty' = TRUE
    /\ last' = Event("updateSize", w, h, FALSE)
    /\ UNCHANGED <<transform, image, mounted, lastImageId, snap, prevDeps,
                   pending, ctx, nGestures>>

\* CanvasStage updateSize, from the mount effect or the ResizeObserver
UpdateSize(w, h) ==
    /\ ~dirty
    /\ IF w > 0 /\ h > 0
       THEN /\ canvasSize' = [width |-> w, height |-> h]
            /\ previewSize' = [width |-> w, height |-> h]
            /\ dirty' = TRUE
       ELSE UNCHANGED <<canvasSize, previewSize, dirty>>
    /\ last' = Event("updateSize", w, h, FALSE)
    /\ UNCHANGED <<transform, image, mounted, lastImageId, snap, prevDeps,
                   pending, ctx, nGestures>>

\* the import step stores a newly decoded image
LoadImage(img) ==
    /\ ~dirty
    /\ img.id # image.id
    /\ image' = img
    /\ dirty' = TRUE
    /\ last' = Event("loadImage", img.width, img.height, FALSE)
    /\ UNCHANGED <<transform, previewSize, canvasSize, mounted, lastImageId,
                   snap, prevDeps, pending, ctx, nGestures>>

\* the handlers are bound once ImageLayer has committed
Gesture(t, ev) ==
    /\ ~dirty
    /\ mounted
    /\ nGestures < MaxGestures
    /\ nGestures' = nGestures + 1
    /\ ScaleOk(t)
    /\ transform' = t
    /\ dirty' = TRUE
    /\ last' = ev
    /\ UNCHANGED <<image, previewSize, canvasSize, mounted, lastImageId,
                   snap, prevDeps, pending, ctx>>

OnDrag(dx, dy, shiftKey) ==
    Gesture(onDrag(transform, dx, dy, shiftKey), Event("drag", dx, dy, shiftKey))

OnWheel(dy) ==
    Gesture(onWheel(transform, dy), Event("wheel", 0, dy, FALSE))

OnPinch(d) ==
    Gesture(onPinch(transform, d), Event("pinch", d, 0, FALSE))

(***************************************************************************)
(* Rendering and effects                                                   *)
(***************************************************************************)
\* consecutive render-and-flush passes completed, none of them interrupted
\* by an event
PassesDone == IF last.op \in {"render", "flush"} THEN last.a ELSE 0

\* CanvasStage re-renders; ImageLayer is rendered when there is an image
\* and a canvas size, and reads the store's transform
Render ==
    /\ dirty
    /\ ~pending
    /\ dirty' = FALSE
    /\ IF image # NoImage /\ canvasSize # NoSize
       THEN /\ snap' = Snapshot(image, canvasSize, transform)
            /\ prevDeps' = IF mounted THEN <<Deps(snap)>> ELSE <<>>
            /\ mounted' = TRUE
            /\ pending' = TRUE
       ELSE UNCHANGED <<snap, prevDeps, mounted, pending>>
    /\ last' = Event("render", PassesDone, 0, FALSE)
    /\ UNCHANGED <<transform, image, previewSize, canvasSize, lastImageId, ctx,
                   nGestures>>

\* the effects of the last commit run in declaration order, each one only
\* if its dependencies changed
FlushResult(t, s, prev, lastId) ==
    LET t1 == IF EffectRuns(prev, s, "init")
              THEN ContainInitEffect(t, s, lastId) ELSE t
        t2 == IF EffectRuns(prev, s, "position")
              THEN PositionClampEffect(t1, s) ELSE t1
        t3 == IF EffectRuns(prev, s, "scale")
              THEN ScaleClampEffect(t2, s) ELSE t2
    IN  t3

FlushUpdates(s, prev, lastId) ==
    \/ EffectRuns(prev, s, "init") /\ ContainInitFires(s, lastId)
    \/ EffectRuns(prev, s, "position") /\ PositionClampFires(s)
    \/ EffectRuns(prev, s, "scale") /\ ScaleClampFires(s)

Flush ==
    /\ pending
    /\ pending' = FALSE
    /\ transform' = FlushResult(transform, snap, prevDeps, lastImageId)
    /\ lastImageId' = IF EffectRuns(prevDeps, snap, "init")
                      THEN snap.image.id ELSE lastImageId
    /\ dirty' = (dirty \/ FlushUpdates(snap, prevDeps, lastImageId))
    /\ last' = Event("flush", IF last.op = "render" THEN last.a + 1 ELSE 0,
                      0, FALSE)
    /\ UNCHANGED <<image, previewSize, canvasSize, mounted, snap, prevDeps, ctx,
                   nGestures>>

\* a paint that also re-centres the stored transform
RenderSceneRecentring(background) ==
    /\ previewSize # NoSize
    /\ ctx' = renderScene([ctx EXCEPT !.ops = <<>>], previewSize.width,
                          previewSize.height, background, transform, image)
    /\ transform' = [transform EXCEPT !.x = R(0), !.y = R(0)]
    /\ last' = Event("renderScene", IF image = NoImage THEN 0 ELSE 1,
                      BackgroundIndex(background), FALSE)
    /\ UNCHANGED <<image, previewSize, canvasSize, mounted,
                   lastImageId, snap, prevDeps, dirty, pending, nGestures>>

\* a preview frame or an export paints the store's current state
RenderScene(background) ==
    /\ previewSize # NoSize
    /\ ctx' = renderScene([ctx EXCEPT !.ops = <<>>], previewSize.width,
                          previewSize.height, background, transform, image)
    /\ last' = Event("renderScene", IF image = NoImage THEN 0 ELSE 1,
                      BackgroundIndex(background), FALSE)
    /\ UNCHANGED <<transform, image, previewSize, canvasSize, mounted,
                   lastImageId, snap, prevDeps, dirty, pending, nGestures>>

Next ==
    \/ \E r \in SizeReports : UpdateSize(r[1], r[2])
    \/ \E img \in Images : LoadImage(img)
    \/ \E d \in DragInputs : OnDrag(d[1], d[2], d[3])
    \/ \E dy \in WheelDeltas : OnWheel(dy)
    \/ \E d \in PinchDeltas : OnPinch(d)
    \/ Render
    \/ Flush

Spec == Init /\ [][Next]_vars

(***************************************************************************)
(* The same program with frames painted by renderScene at any moment, on   *)
(* fewer distinct inputs                                                   *)
(***************************************************************************)
SceneImages == { img \in Images : img.id \in {"a.png", "b.png"} }
SceneSizeReports == { <<800, 600>>, <<0, 0>> }
SceneDragInputs == { <<600, 0, FALSE>>, <<300, -500, TRUE>> }
SceneWheelDeltas == { 416 }
ScenePinchDeltas == { 200 }

NextScene ==
    \/ \E r \in SceneSizeReports : UpdateSize(r[1], r[2])
    \/ \E img \in SceneImages : LoadImage(img)
    \/ \E d \in SceneDragInputs : OnDrag(d[1], d[2], d[3])
    \/ \E dy \in SceneWheelDeltas : OnWheel(dy)
    \/ \E d \in ScenePinchDeltas : OnPinch(d)
    \/ Render
    \/ Flush
    \/ \E bg \in Backgrounds : RenderScene(bg)

SpecScene == Init /\ [][NextScene]_vars

(***************************************************************************)
(* The store holding an arbitrary TransformState: ImageLayer is mounted    *)
(* for the current image, the transform has just been written through      *)
(* updateTransform, and the store's adjustScale is called directly.        *)
(***************************************************************************)
AnyX == { -1200, 0, 500, 1200 }
AnyY == { 0, 700 }
AnyScale == { <<1, 2>>, <<2, 1>>, <<4, 1>>, <<8, 1>> }
AnyFactor == { <<-1, 1>>, <<0, 1>>, <<1, 2>>, <<2, 1>> }

InitStore ==
    /\ transform \in [x : {R(n) : n \in AnyX}, y : {R(n) : n \in AnyY},
                      scale : AnyScale]
    /\ image \in Images
    /\ canvasSize \in {[width |-> r[1], height |-> r[2]] :
                           r \in {q \in SizeReports : q[1] > 0 /\ q[2] > 0}}
    /\ previewSize = canvasSize
    /\ mounted = TRUE
    /\ lastImageId = image.id
    /\ snap = NoSnapshot
    /\ prevDeps = <<>>
    /\ dirty = TRUE
    /\ pending = FALSE
    /\ ctx = NewSurface
    /\ last = Event("updateTransform", 0, 0, FALSE)
    /\ nGestures = 0

AdjustScaleCall(factor) ==
    Gesture(adjustScale(transform, factor),
            Event("adjustScale", factor[1], factor[2], FALSE))

NextStore ==
    \/ \E f \in AnyFactor : AdjustScaleCall(f)
    \/ Render
    \/ Flush

SpecStore == InitStore /\ [][NextStore]_vars

(***************************************************************************)
(* Properties                                                              *)
(***************************************************************************)
\* the store has been rendered and that render's effects have run
Reconciled == mounted /\ ~dirty /\ ~pending

\* the legal pan range on one axis, from the stated formula
PanRange(imageSize, canvasLength, scale) ==
    RMax(R(0), RDiv(RSub(RMul(R(imageSize), scale), R(canvasLength)), R(2)))

InPanRange(t, img, size) ==
    /\ RLe(RNeg(PanRange(img.width, size.width, t.scale)), t.x)
    /\ RLe(t.x, PanRange(img.width, size.width, t.scale))
    /\ RLe(RNeg(PanRange(img.height, size.height, t.scale)), t.y)
    /\ RLe(t.y, PanRange(img.height, size.height, t.scale))

\* C1: once reconciliation has run, x and y lie within [-maxX, maxX] and
\* [-maxY, maxY] computed from the stored scale, and scale <= MAX_SCALE
C1_ClampInvariant ==
    Reconciled =>
        /\ InPanRange(transform, image, canvasSize)
        /\ RLe(transform.scale, R(MAX_SCALE))

\* a reconciled state reached after a zoom past the ceiling and a pan past
\* the edge: the scale sits at the ceiling, x at its non-zero bound
C1_Witness ==
    /\ Reconciled
    /\ nGestures >= 2
    /\ transform.scale = R(MAX_SCALE)
    /\ transform.x = PanRange(image.width, canvasSize.width, transform.scale)
    /\ transform.x # R(0)

\* C2: one reconciliation pass (a render and the flush of its clamp
\* effects) leaves a state on which the next pass changes nothing
C2_ReconcilerIdempotent ==
    [][(pending /\ ~pending' /\ last.op = "render" /\ last.a >= 1)
          => (transform' = transform)]_vars

ContainFit(img, size) ==
    [x |-> R(0), y |-> R(0),
     scale |-> RMin(RDiv(R(size.width), R(img.width)),
                    RDiv(R(size.height), R(img.height)))]

\* the flush about to run is the one in which the contain-init effect
\* sees a new image
NewImageFlush ==
    /\ pending
    /\ EffectRuns(prevDeps, snap, "init")
    /\ ContainInitFires(snap, lastImageId)

\* C3: after the effect flush that initialises a newly loaded image, the
\* transform is exactly the contain-fit transform of that image
C3_ResetOnLoad ==
    [][(NewImageFlush /\ ~pending')
          => (transform' = ContainFit(snap.image,
                 [width |-> snap.canvasWidth, height |-> snap.canvasHeight]))]_vars

\* C4: in every store state with an image on a measured canvas, x and y
\* lie within the legal pan range and scale <= MAX_SCALE
C4_AlwaysInRange ==
    (image # NoImage /\ canvasSize # NoSize) =>
        /\ InPanRange(transform, image, canvasSize)
        /\ RLe(transform.scale, R(MAX_SCALE))

\* a gesture step: the handler of a drag, wheel or pinch event ran
GestureStep == nGestures' # nGestures

C7_DragZoomsOrPans ==
    [][(GestureStep /\ last'.op = "drag") =>
          IF last'.shift
          THEN transform' = [transform EXCEPT !.scale =
                  RMul(@, RMax(<<1, 2>>, RSub(R(1), RDiv(R(2 * last'.b), R(1000)))))]
          ELSE transform' = [transform EXCEPT !.x = RAdd(@, R(last'.a)),
                                              !.y = RAdd(@, R(last'.b))]]_vars

\* the documented scenario: from {x: 0, y: 0, scale: 1} a shift-drag with
\* dy = 50 gave scale 0.9
C7_Witness ==
    /\ last = Event("drag", 0, 50, TRUE)
    /\ transform = [x |-> R(0), y |-> R(0), scale |-> <<9, 10>>]

\* C8: a renderScene call leaves the transform, the image metadata and the
\* canvas geometry unchanged
C8_RenderIsPureRead ==
    [][(last'.op = "renderScene")
          => UNCHANGED <<transform, image, previewSize, canvasSize>>]_vars

\* a frame with an image painted between a pan and its reconciliation
C8_Witness ==
    /\ last.op = "renderScene"
    /\ last.a = 1
    /\ dirty
    /\ nGestures >= 1
    /\ transform.x # R(0)

\* C9: renderScene without an image issues exactly one drawing call, the
\* fill of (0, 0, width, height) in the background colour
C9_BackgroundOnlyFrame ==
    (last.op = "renderScene" /\ last.a = 0) =>
        ctx.ops = << <<"fillRect", BackgroundList[last.b], R(0), R(0),
                       R(previewSize.width), R(previewSize.height)>> >>

\* a frame without an image was painted in the second background colour
C9_Witness ==
    /\ last.op = "renderScene"
    /\ last.a = 0
    /\ last.b = 2
    /\ Len(ctx.ops) = 1

\* the rectangle renderScene draws the image into
SceneRect(t, img, width, height) ==
    LET c == renderScene(NewSurface, width, height, BackgroundList[1], t, img)
        op == c.ops[Len(c.ops)]
    IN  [width |-> op[5], height |-> op[6], left |-> op[3], top |-> op[4]]

\* C10: the rectangle of the preview's <img> equals the rectangle
\* renderScene draws into for the stored transform and the same canvas
C10_PreviewEqualsScene ==
    (mounted /\ ~dirty) =>
        imgStyle(snap) = SceneRect(transform, image, snap.canvasWidth,
                                   snap.canvasHeight)

\* a render of ImageLayer: it reads the store's transform
ImageLayerRenders ==
    /\ dirty /\ ~dirty'
    /\ image # NoImage /\ canvasSize # NoSize

\* C11: a gesture's mutation is reconciled before the next render reads the
\* store: no render reads a transform that reconciliation would still change
C11_RenderReadsReconciled ==
    [][ImageLayerRenders =>
          /\ InPanRange(transform, image, canvasSize)
          /\ RLe(transform.scale, R(MAX_SCALE))]_vars

\* the contain-init effect is about to meet a new image, the case in which
\* it calls computeContainScale if its guard lets it
ContainInitReached ==
    /\ pending
    /\ EffectRuns(prevDeps, snap, "init")
    /\ lastImageId # snap.image.id

\* C12: computeContainScale is never reached with a canvas width or height
\* <= 0, and a size report with a non-positive dimension changes neither
\* the local canvas size nor the store's preview size
C12_ContainScaleGuard ==
    /\ [](ContainInitReached => (snap.canvasWidth > 0 /\ snap.canvasHeight > 0))
    /\ [](mounted => (snap.canvasWidth > 0 /\ snap.canvasHeight > 0))
    /\ [][(last'.op = "updateSize" /\ (last'.a <= 0 \/ last'.b <= 0))
             => UNCHANGED <<canvasSize, previewSize>>]_vars

\* a report of 800x0 arrived after a measured canvas and before the
\* contain-init of a new image ran, and was dropped
C12_Witness ==
    /\ last = Event("updateSize", 800, 0, FALSE)
    /\ ContainInitReached
    /\ canvasSize = [width |-> 1600, height |-> 1200]
    /\ previewSize = canvasSize

\* the flush about to run follows the first render with a canvas size that
\* differs from the previous render's, for the same image
CanvasResizeFlush ==
    /\ pending
    /\ prevDeps # <<>>
    /\ prevDeps[1].init[1] = snap.image.id
    /\ \/ prevDeps[1].init[2] # snap.canvasWidth
       \/ prevDeps[1].init[3] # snap.canvasHeight

\* C14: after the canvas width or height changed with the same image, the
\* effects re-initialise the transform to the contain scale of the new
\* canvas with x = 0 and y = 0
C14_ContainOnResize ==
    [][(CanvasResizeFlush /\ ~pending') =>
          transform' = ContainFit(snap.image,
                                  [width |-> snap.canvasWidth,
                                   height |-> snap.canvasHeight])]_vars

\* C15: with no further event, the cycle of render, clamp effects and
\* re-render stops after a bounded number of passes (three, the last of
\* them finding nothing to write) in a state in which no effect writes any
\* more, and that state has x, y within the bounds and scale <= MAX_SCALE
C15_ReconciliationTerminates ==
    /\ PassesDone <= 3
    /\ (mounted /\ PassesDone = 3 /\ last.op = "flush") =>
           /\ ~dirty
           /\ InPanRange(transform, image, canvasSize)
           /\ RLe(transform.scale, R(MAX_SCALE))
    /\ Reconciled =>
           /\ FlushResult(transform, Snapshot(image, canvasSize, transform),
                          <<>>, lastImageId) = transform
           /\ InPanRange(transform, image, canvasSize)
           /\ RLe(transform.scale, R(MAX_SCALE))

\* reconciliation that needed all the passes has come to rest: the pass
\* before the last one still corrected x
C15_Witness ==
    /\ Reconciled
    /\ last = Event("flush", 3, 0, FALSE)
    /\ prevDeps[1].position[3] # transform.x
    /\ InPanRange(transform, image, canvasSize)

\* the displayed image does not exceed the canvas along an axis
FitsAxis(imageSize, canvasLength, scale) ==
    RLe(RMul(R(imageSize), scale), R(canvasLength))

\* C16: whenever image.width * scale <= canvasWidth the reconciled x is
\* exactly 0, and likewise y for the height; at the contain scale a nudge
\* is fully undone by reconciliation
C16_PanRangeCollapse ==
    Reconciled =>
        /\ FitsAxis(image.width, canvasSize.width, transform.scale)
               => transform.x = R(0)
        /\ FitsAxis(image.height, canvasSize.height, transform.scale)
               => transform.y = R(0)

\* at the contain scale, the render before the last one saw a nudged x and
\* y, and reconciliation has put both back to 0
C16_Witness ==
    /\ Reconciled
    /\ last.op = "flush"
    /\ transform = ContainFit(image, canvasSize)
    /\ prevDeps[1].position[3] # R(0)
    /\ prevDeps[1].position[4] # R(0)

\* C17: when renderScene returns, with or without an image, the surface's
\* save/restore stack, translation, fill style and smoothing settings equal
\* their values immediately before the call
C17_SurfaceStateRestored ==
    [][last'.op = "renderScene" =>
          /\ ctx'.stack = ctx.stack
          /\ DrawState(ctx') = DrawState(ctx)]_vars

\* a frame with an image has been painted at a translated origin and with
\* its own fill style, and the surface is back in its state before the call
C17_Witness ==
    /\ last.op = "renderScene"
    /\ last.a = 1
    /\ Len(ctx.ops) = 3
    /\ ctx.ops[1][2] # ctx.fillStyle
    /\ ctx.ops[2] # <<"translate", R(0), R(0)>>
    /\ ctx.tx = R(0) /\ ctx.ty = R(0)
    /\ ctx.imageSmoothingQuality = "low"
    /\ ctx.stack = <<>>

\* the render values ImageLayer would compute from the store as it is now
StoreSnapshot == [snap EXCEPT !.transform = transform]

\* a gesture has written the store after the last render took its snapshot,
\* and that render's clamp effects are about to run
GestureBeforeEffects ==
    /\ pending
    /\ last.op \in {"drag", "wheel", "pinch"}
    /\ snap.transform # transform
    /\ ~NewImageFlush

\* C18: a correction is computed from the store state it is applied to: when
\* a gesture commits between the render snapshot and the effects, whatever
\* the effects write is the clamp of the store's own x, y and scale, never a
\* value derived from the older snapshot
C18_NoStaleCorrection ==
    [][(GestureBeforeEffects /\ ~pending') =>
          /\ transform'.x # transform.x => transform'.x = clampedX(StoreSnapshot)
          /\ transform'.y # transform.y => transform'.y = clampedY(StoreSnapshot)
          /\ transform'.scale # transform.scale =>
                 /\ RLt(R(MAX_SCALE), transform.scale)
                 /\ transform'.scale = R(MAX_SCALE)]_vars

\* the offset of the displayed image's centre from the canvas centre, read
\* back from the rectangle st the <img> element is laid out in
DisplayedX(st, canvasWidth) ==
    RSub(RAdd(st.left, RDiv(st.width, R(2))), RDiv(R(canvasWidth), R(2)))

DisplayedY(st, canvasHeight) ==
    RSub(RAdd(st.top, RDiv(st.height, R(2))), RDiv(R(canvasHeight), R(2)))

\* C19: in every rendered frame of ImageLayer, also one whose reconciling
\* effect has not yet written back, the displayed position lies within
\* [-maxX, maxX] x [-maxY, maxY] computed from that frame's own scale, and
\* the bounds handed to clamp are never inverted
C19_DisplayedPositionLegal ==
    mounted =>
        LET st == imgStyle(snap)
            dx == DisplayedX(st, snap.canvasWidth)
            dy == DisplayedY(st, snap.canvasHeight)
            px == PanRange(snap.image.width, snap.canvasWidth,
                           snap.transform.scale)
            py == PanRange(snap.image.height, snap.canvasHeight,
                           snap.transform.scale)
        IN  /\ RLe(RNeg(px), dx) /\ RLe(dx, px)
            /\ RLe(RNeg(py), dy) /\ RLe(dy, py)
            /\ RLe(minX(snap), maxX(snap))
            /\ RLe(minY(snap), maxY(snap))

\* a frame rendered from a transform that is out of range on both axes,
\* before its effects have written the correction back
C19_Witness ==
    /\ mounted
    /\ pending
    /\ nGestures >= 1
    /\ transform = snap.transform
    /\ RLt(snap.transform.x, DisplayedX(imgStyle(snap), snap.canvasWidth))
    /\ RLt(DisplayedY(imgStyle(snap), snap.canvasHeight), snap.transform.y)

====
